---- MODULE Spec2Model ----
(***************************************************************************)
(* Memory-and-orchestration control loop of the ZUS Coffee chatbot:        *)
(* the LangGraph pipeline of graph.py (manage_memory -> retrieve_memory -> *)
(* planner -> [tool_executor ->] chat_response_generator), the node        *)
(* functions of agent/memory.py and agent/planner.py, the add_messages     *)
(* reducer on the "messages" channel and the module-level FAISS index.     *)
(* The language model, the embedding search and the tools' bodies are      *)
(* oracles: their outputs are drawn from small sets.                       *)
(***************************************************************************)
EXTENDS Integers, Sequences, FiniteSets, TLC

\* ---------------------------------------------------------------- bounds
MaxTurns == 4        \* turns accepted on the thread of the chat loop
MaxLive == 11        \* a turn is accepted while fewer conversational turns are held
MaxToolCalls == 2    \* tool-call requests in one planner output
SharedTurnsA == 2    \* two conversations side by side: turns of the first
SharedTurnsB == 3    \* two conversations side by side: turns of the second
LongTurns == 4       \* one long conversation: its turns
LongLive == 16       \* one long conversation: conversational turns held at most
MaxExprLen == 4      \* lexemes in an expression handed to the calculator
MaxPad == 2          \* whitespace characters between two clauses of a statement
MaxFilters == 2      \* filters in one WHERE clause

\* ------------------------------------------------------ program constants
MAX_RECENT_MESSAGES == 10
MESSAGES_TO_SUMMARIZE_PER_BATCH == 5
SEARCH_K == 3

Threads == {"A", "B"}
MainThread == "A"

\* registry of graph.py: tools = [calculator, get_product_info, get_outlet_details]
tools == <<"calculator", "get_product_info", "get_outlet_details">>

\* declared parameters of each registered tool's function
ToolParams(name) ==
    IF name = "calculator" THEN {"expression"}
    ELSE {"query", "long_term_summary", "retrieved_context"}

\* ------------------------------------------------------------------ text
\* A text is a sequence of characters; " " and "\n" are the whitespace
\* characters.
IsSpace(c) == c \in {" ", "\n"}

RECURSIVE LStrip(_)
LStrip(s) == IF s # <<>> /\ IsSpace(Head(s)) THEN LStrip(Tail(s)) ELSE s

RECURSIVE RStrip(_)
RStrip(s) ==
    IF s # <<>> /\ IsSpace(s[Len(s)]) THEN RStrip(SubSeq(s, 1, Len(s) - 1)) ELSE s

\* mutant: the reply is used without .strip()
Strip_none(s) == s

\* str.strip()
Strip(s) == RStrip(LStrip(s))

\* ------------------------------------------------------ absent dict keys
NoSummary == <<"<absent>">>          \* state has no "long_term_summary" key
NoContext == << <<"<absent>">> >>    \* state has no "retrieved_context" key
NoAction == "<absent>"               \* state has no "next_action_type"/"intent"

\* the defaults of state.get(...)
MemoryDefaultSummary == <<"No prior summary.">>

\* ---------------------------------------------------------------- oracles
\* raw .content of the summarizer's reply: blank, padded, plain
SummaryOutputs == { <<" ">>, <<" ", "s", " ">>, <<"u">> }
HumanTexts == {"q"}
Contents == {"", "text"}
RequestNames == {"get_product_info", "no_such_tool"}
ToolOutcomes == {"ok", "raise"}

\* Requests of one planner reply: none, one (registered or not), or several
\* that alternate between a registered and an unregistered name.
Alternating(n) ==
    [k \in 1..n |-> IF k % 2 = 1 THEN "get_product_info" ELSE "no_such_tool"]
CallSeqs ==
    {<<>>} \cup { <<n>> : n \in RequestNames }
           \cup { Alternating(n) : n \in 2..MaxToolCalls }
\* free text comes alone or next to a single request
PlannerOutputs ==
    { o \in [content : Contents, names : CallSeqs] :
        Len(o.names) > 1 => o.content = "" }

\* replies of a conversation that answers directly or asks for one lookup
PlainReplies ==
    { o \in PlannerOutputs :
        \/ o.names = <<>> /\ o.content = "text"
        \/ o.names = <<"get_product_info">> /\ o.content = "" }
\* replies of a conversation that always asks for two tools at once
PairReplies == { o \in PlannerOutputs : Len(o.names) = 2 }

\* --------------------------------------------------------------- messages
HumanMessage(id, c) ==
    [id |-> id, type |-> "human", content |-> c, tool_calls |-> <<>>, tool_call_id |-> 0]
SystemMessage(id, c) ==
    [id |-> id, type |-> "system", content |-> c, tool_calls |-> <<>>, tool_call_id |-> 0]
AIMessage(id, c, calls) ==
    [id |-> id, type |-> "ai", content |-> c, tool_calls |-> calls, tool_call_id |-> 0]
ToolMessage(id, c, cid) ==
    [id |-> id, type |-> "tool", content |-> c, tool_calls |-> <<>>, tool_call_id |-> cid]

NOT_FOUND == "Tool was requested but not found or not callable."
EXEC_ERROR == "Error executing tool"
TOOL_RESULT == "tool result"
NO_TOOL_CALLS == "An internal error occurred: No tool calls found."

\* ------------------------------------------------- channels and reducers
AllKeys == {"messages", "long_term_summary", "retrieved_context",
            "next_action_type", "intent"}

EmptyState ==
    [messages |-> <<>>, long_term_summary |-> NoSummary,
     retrieved_context |-> NoContext, next_action_type |-> NoAction,
     intent |-> NoAction]

IndexOfId(msgs, id) ==
    IF \E i \in 1..Len(msgs) : msgs[i].id = id
    THEN CHOOSE i \in 1..Len(msgs) : msgs[i].id = id
    ELSE 0

\* langgraph add_messages: a message whose id is already in the list replaces
\* that entry in place, any other message is appended.
RECURSIVE add_messages(_, _)
add_messages(left, right) ==
    IF right = <<>> THEN left
    ELSE LET m == Head(right)
             i == IndexOfId(left, m.id)
         IN add_messages(IF i = 0 THEN Append(left, m)
                         ELSE [left EXCEPT ![i] = m],
                         Tail(right))

\* A node's return value: the keys of the returned dict and their values.
Update(keys, vals) == [keys |-> keys, vals |-> vals]
NoUpdate == Update({}, EmptyState)
MessagesOnly(msgs) == Update({"messages"}, [EmptyState EXCEPT !.messages = msgs])

\* GraphState: "messages" is reduced by add_messages, every other channel
\* is overwritten by the value the node returned.
ApplyUpdate(s, u) ==
    [messages |-> IF "messages" \in u.keys
                  THEN add_messages(s.messages, u.vals.messages)
                  ELSE s.messages,
     long_term_summary |-> IF "long_term_summary" \in u.keys
                           THEN u.vals.long_term_summary ELSE s.long_term_summary,
     retrieved_context |-> IF "retrieved_context" \in u.keys
                           THEN u.vals.retrieved_context ELSE s.retrieved_context,
     next_action_type |-> IF "next_action_type" \in u.keys
                          THEN u.vals.next_action_type ELSE s.next_action_type,
     intent |-> IF "intent" \in u.keys THEN u.vals.intent ELSE s.intent]

\* ------------------------------------------------------------------ state
VARIABLES
    state,            \* thread id -> checkpointed GraphState
    pc,               \* thread id -> node about to run ("idle" between turns)
    vectorstore,      \* page_content of the documents of the FAISS index
    nextId,           \* thread id -> next fresh message / call id
    budget,           \* thread id -> turns still accepted
    trace,            \* thread id -> nodes run in the current turn
    invoked,          \* thread id -> tool invocations of the current turn
    summarizerCalls,  \* number of summary_chain.invoke calls
    evicted,          \* thread id -> ids of the turns manage_memory_node dropped
    cycles,           \* thread id -> the evictions done: summary given and produced
    scope,            \* thread id -> what the environment does on the thread
    sql,              \* the /outlets request: generated, cleaned and expanded SQL
    calc,             \* the calculator tool's call
    last              \* the latest node execution

vars == <<state, pc, vectorstore, nextId, budget, trace, invoked,
          summarizerCalls, evicted, cycles, scope, sql, calc, last>>

\* what no node of the graph writes
outside == <<scope, sql, calc>>

NoStep ==
    [thread |-> "", node |-> "init", raised |-> FALSE, before |-> EmptyState,
     ret |-> NoUpdate, summarized |-> <<>>, existing |-> NoSummary,
     raw |-> <<>>, outcomes |-> <<>>, indexBefore |-> << <<>> >>, callsBefore |-> 0]

Step(t, node, raised, ret) ==
    [thread |-> t, node |-> node, raised |-> raised, before |-> state[t],
     ret |-> ret, summarized |-> <<>>, existing |-> NoSummary,
     raw |-> <<>>, outcomes |-> <<>>, indexBefore |-> vectorstore,
     callsBefore |-> summarizerCalls]

\* vectorstore = FAISS.from_texts([""], embedding_model)
InitIndex == << <<>> >>

\* no /outlets request and no calculator call is in progress
SqlIdle == [pc |-> "idle", raw |-> <<>>, cleaned |-> <<>>, again |-> <<>>,
            fuzzy |-> <<>>]
NoValue == [t |-> "none", n |-> 0]
CalcIdle == [pc |-> "idle", expression |-> <<>>,
             output |-> [kind |-> "none", value |-> NoValue]]

\* the graph before the first turn
InitGraph ==
    /\ state = [t \in Threads |-> EmptyState]
    /\ pc = [t \in Threads |-> "idle"]
    /\ vectorstore = InitIndex
    /\ nextId = [t \in Threads |-> 1]
    /\ trace = [t \in Threads |-> <<>>]
    /\ invoked = [t \in Threads |-> <<>>]
    /\ summarizerCalls = 0
    /\ evicted = [t \in Threads |-> {}]
    /\ cycles = [t \in Threads |-> <<>>]
    /\ last = NoStep

\* a thread on which no turn arrives
Silent == [live |-> 0, replies |-> {}]

\* the chat loop of graph.py: one thread, any planner reply
Init ==
    /\ InitGraph
    /\ budget = [t \in Threads |-> IF t = MainThread THEN MaxTurns ELSE 0]
    /\ scope = [t \in Threads |->
                  IF t = MainThread
                  THEN [live |-> MaxLive, replies |-> PlannerOutputs]
                  ELSE Silent]
    /\ sql = SqlIdle
    /\ calc = CalcIdle

\* two threads share the process: the first answers plainly, the second
\* asks for two tools in every turn and so fills its window in three turns
InitShared ==
    /\ InitGraph
    /\ budget = [t \in Threads |-> IF t = MainThread THEN SharedTurnsA
                                   ELSE SharedTurnsB]
    /\ scope = [t \in Threads |->
                  IF t = MainThread
                  THEN [live |-> MaxLive, replies |-> PlainReplies]
                  ELSE [live |-> MaxLive, replies |-> PairReplies]]
    /\ sql = SqlIdle
    /\ calc = CalcIdle

\* one conversation that asks for two tools in every turn and goes on past
\* its first eviction
InitLong ==
    /\ InitGraph
    /\ budget = [t \in Threads |-> IF t = MainThread THEN LongTurns ELSE 0]
    /\ scope = [t \in Threads |->
                  IF t = MainThread
                  THEN [live |-> LongLive, replies |-> PairReplies]
                  ELSE Silent]
    /\ sql = SqlIdle
    /\ calc = CalcIdle

IsSystem(m) == m.type = "system"
IsConversational(m) == m.type # "system"
IsHumanOrAI(m) == m.type \in {"human", "ai"}

\* ------------------------------------------------------------ entry point
\* app.invoke({"messages": [m]}, thread_id = t): the input is written to the
\* thread's checkpointed state through the reducers, then the entry node runs.
\* mutant: the checkpoint is not keyed by thread_id
Invoke_sharedKey(t, m) ==
    /\ pc[t] = "idle"
    /\ budget[t] > 0
    /\ Len(SelectSeq(state[t].messages, IsConversational)) < scope[t].live
    /\ LET u == MessagesOnly(<<m>>)
       IN /\ state' = [a \in Threads |-> ApplyUpdate(state[a], u)]
          /\ last' = Step(t, "input", FALSE, u)
    /\ pc' = [pc EXCEPT ![t] = "manage_memory"]
    /\ nextId' = [nextId EXCEPT ![t] = @ + 1]
    /\ budget' = [budget EXCEPT ![t] = @ - 1]
    /\ trace' = [trace EXCEPT ![t] = <<>>]
    /\ invoked' = [invoked EXCEPT ![t] = <<>>]
    /\ UNCHANGED <<outside, vectorstore, summarizerCalls, evicted, cycles>>

Invoke(t, m) ==
    /\ pc[t] = "idle"
    /\ budget[t] > 0
    /\ Len(SelectSeq(state[t].messages, IsConversational)) < scope[t].live
    /\ LET u == MessagesOnly(<<m>>)
       IN /\ state' = [state EXCEPT ![t] = ApplyUpdate(state[t], u)]
          /\ last' = Step(t, "input", FALSE, u)
    /\ pc' = [pc EXCEPT ![t] = "manage_memory"]
    /\ nextId' = [nextId EXCEPT ![t] = @ + 1]
    /\ budget' = [budget EXCEPT ![t] = @ - 1]
    /\ trace' = [trace EXCEPT ![t] = <<>>]
    /\ invoked' = [invoked EXCEPT ![t] = <<>>]
    /\ UNCHANGED <<outside, vectorstore, summarizerCalls, evicted, cycles>>

UserTurn(t) ==
    \E c \in HumanTexts :
        Invoke(t, HumanMessage(nextId[t], c))

\* a system turn, when there is one, opens the conversation
SystemTurn(t) ==
    /\ state[t].messages = <<>>
    /\ Invoke(t, SystemMessage(nextId[t], "sys"))

\* ----------------------------------------------------------- memory node

Conversational(msgs) == SelectSeq(msgs, IsConversational)
SystemMessages(msgs) == SelectSeq(msgs, IsSystem)

\* Python slices s[:n] and s[n:]
Take(s, n) == SubSeq(s, 1, IF n < Len(s) THEN n ELSE Len(s))
Drop(s, n) == SubSeq(s, n + 1, Len(s))

\* mutant: the stored summary is never read, the default is always passed
Get_alwaysDefault(v, absent, default) == default

\* state.get(key, default)
Get(v, absent, default) == IF v = absent THEN default ELSE v

\* mutant: the threshold test written with >= instead of >
Evicts_inclusive(s) == Len(Conversational(s.messages)) >= MAX_RECENT_MESSAGES

Evicts(s) == Len(Conversational(s.messages)) > MAX_RECENT_MESSAGES

\* mutant: a batch size of zero
Batch_none(s) == Take(Conversational(s.messages), 0)

Batch(s) == Take(Conversational(s.messages), MESSAGES_TO_SUMMARIZE_PER_BATCH)

\* mutant: the whole batch is formatted for the summarizer
ToSummarize_wholeBatch(s) == Batch(s)

\* to_summarize = [m for m in batch if isinstance(m, (HumanMessage, AIMessage))]
ToSummarize(s) == SelectSeq(Batch(s), IsHumanOrAI)

\* mutant: the slice of the kept turns starts one turn early
Remaining_early(s) ==
    Drop(Conversational(s.messages), MESSAGES_TO_SUMMARIZE_PER_BATCH - 1)

Remaining(s) == Drop(Conversational(s.messages), MESSAGES_TO_SUMMARIZE_PER_BATCH)

Ids(msgs) == { msgs[i].id : i \in 1..Len(msgs) }

\* the dict manage_memory_node returns when the summarizer replied raw
manage_memory_node(s, raw) ==
    IF Evicts(s)
    THEN Update(AllKeys,
                [s EXCEPT !.messages = SystemMessages(s.messages) \o Remaining(s),
                          !.long_term_summary = Strip(raw)])
    ELSE Update(AllKeys, s)

ManageMemoryKeep(t) ==
    /\ pc[t] = "manage_memory"
    /\ ~Evicts(state[t])
    /\ LET u == manage_memory_node(state[t], <<>>)
       IN /\ state' = [state EXCEPT ![t] = ApplyUpdate(state[t], u)]
          /\ last' = Step(t, "manage_memory", FALSE, u)
    /\ pc' = [pc EXCEPT ![t] = "retrieve_memory"]
    /\ trace' = [trace EXCEPT ![t] = Append(@, "manage_memory")]
    /\ UNCHANGED <<outside, vectorstore, nextId, budget, invoked, summarizerCalls, evicted, cycles>>

ManageMemoryEvict(t) ==
    /\ pc[t] = "manage_memory"
    /\ Evicts(state[t])
    /\ \E raw \in SummaryOutputs :
        LET u == manage_memory_node(state[t], raw)
            new_summary == Strip(raw)
        IN /\ state' = [state EXCEPT ![t] = ApplyUpdate(state[t], u)]
           /\ vectorstore' = IF new_summary # <<>>
                             THEN Append(vectorstore, new_summary)
                             ELSE vectorstore
           /\ last' = [Step(t, "manage_memory", FALSE, u) EXCEPT
                         !.summarized = ToSummarize(state[t]),
                         !.existing = Get(state[t].long_term_summary, NoSummary,
                                          MemoryDefaultSummary),
                         !.raw = raw]
    /\ summarizerCalls' = summarizerCalls + 1
    /\ evicted' = [evicted EXCEPT ![t] = @ \cup Ids(Batch(state[t]))]
    /\ pc' = [pc EXCEPT ![t] = "retrieve_memory"]
    /\ trace' = [trace EXCEPT ![t] = Append(@, "manage_memory")]
    /\ cycles' = [cycles EXCEPT ![t] =
                    Append(@, [existing |-> Get(state[t].long_term_summary,
                                                NoSummary, MemoryDefaultSummary),
                               summary |-> Strip(last'.raw)])]
    /\ UNCHANGED <<outside, nextId, budget, invoked>>

\* mutant: the failure is swallowed into an empty summary that is written back
ManageMemoryFail_swallowed(t) ==
    /\ pc[t] = "manage_memory"
    /\ Evicts(state[t])
    /\ state' = [state EXCEPT ![t] =
                   ApplyUpdate(state[t], manage_memory_node(state[t], <<>>))]
    /\ last' = Step(t, "manage_memory", TRUE, NoUpdate)
    /\ summarizerCalls' = summarizerCalls + 1
    /\ pc' = [pc EXCEPT ![t] = "failed"]
    /\ trace' = [trace EXCEPT ![t] = Append(@, "manage_memory")]
    /\ UNCHANGED <<outside, vectorstore, nextId, budget, invoked, evicted, cycles>>

\* summary_chain.invoke raises: the node returns nothing and the turn fails
ManageMemoryFail(t) ==
    /\ pc[t] = "manage_memory"
    /\ Evicts(state[t])
    /\ last' = [Step(t, "manage_memory", TRUE, NoUpdate) EXCEPT
                  !.summarized = ToSummarize(state[t]),
                  !.existing = Get(state[t].long_term_summary, NoSummary,
                                   MemoryDefaultSummary)]
    /\ summarizerCalls' = summarizerCalls + 1
    /\ pc' = [pc EXCEPT ![t] = "failed"]
    /\ trace' = [trace EXCEPT ![t] = Append(@, "manage_memory")]
    /\ UNCHANGED <<outside, state, vectorstore, nextId, budget, invoked, evicted, cycles>>

\* -------------------------------------------------------- retrieval node
RECURSIVE LastHumanContent(_)
LastHumanContent(msgs) ==
    IF msgs = <<>> THEN ""
    ELSE IF msgs[Len(msgs)].type = "human" THEN msgs[Len(msgs)].content
    ELSE LastHumanContent(SubSeq(msgs, 1, Len(msgs) - 1))

MinOf(a, b) == IF a < b THEN a ELSE b

\* similarity_search(query, k): the k nearest documents of the whole index,
\* nearest first; which ones are nearest is the embedding oracle's choice.
Rankings(index, k) ==
    { r \in [1..MinOf(k, Len(index)) -> 1..Len(index)] :
        \A i, j \in DOMAIN r : i # j => r[i] # r[j] }

PageContents(index, r) == [i \in DOMAIN r |-> index[r[i]]]

\* mutant: the search runs even when there is no user turn to search for
Searches_noQueryCheck(s, index) ==
    IF Len(index) > 1
    THEN { PageContents(index, r) : r \in Rankings(index, SEARCH_K) }
    ELSE { <<>> }

Searches(s, index) ==
    IF LastHumanContent(s.messages) # "" /\ Len(index) > 1
    THEN { PageContents(index, r) : r \in Rankings(index, SEARCH_K) }
    ELSE { <<>> }

\* mutant: the hits are added to the context already held
retrieve_long_term_memory_node_append(s, docs) ==
    Update(AllKeys, [s EXCEPT !.retrieved_context =
                        (IF @ = NoContext THEN <<>> ELSE @) \o docs])

retrieve_long_term_memory_node(s, docs) ==
    Update(AllKeys, [s EXCEPT !.retrieved_context = docs])

RetrieveMemory(t) ==
    /\ pc[t] = "retrieve_memory"
    /\ \E docs \in Searches(state[t], vectorstore) :
        LET u == retrieve_long_term_memory_node(state[t], docs)
        IN /\ state' = [state EXCEPT ![t] = ApplyUpdate(state[t], u)]
           /\ last' = Step(t, "retrieve_memory", FALSE, u)
    /\ pc' = [pc EXCEPT ![t] = "planner"]
    /\ trace' = [trace EXCEPT ![t] = Append(@, "retrieve_memory")]
    /\ UNCHANGED <<outside, vectorstore, nextId, budget, invoked, summarizerCalls, evicted, cycles>>

\* ----------------------------------------------------------- planner node
\* the oracle's reply: content o.content and one tool-call request per name
Response(o, id) ==
    AIMessage(id, o.content,
              [k \in 1..Len(o.names) |-> [name |-> o.names[k], id |-> id + k]])

\* mutant: free text decides the classification before the tool calls do
planner_node_textFirst(response) ==
    IF response.content = "" /\ response.tool_calls # <<>>
    THEN Update({"messages", "next_action_type", "intent"},
                [EmptyState EXCEPT !.messages = <<response>>,
                                   !.next_action_type = "tool_call",
                                   !.intent = "tool_call_detected"])
    ELSE Update({"messages", "next_action_type", "intent"},
                [EmptyState EXCEPT !.messages = <<response>>,
                                   !.next_action_type = "final_answer",
                                   !.intent = "chat"])

\* mutant: a final answer leaves the routing value as it was stored
planner_node_staleRoute(response) ==
    IF response.tool_calls # <<>>
    THEN Update({"messages", "next_action_type", "intent"},
                [EmptyState EXCEPT !.messages = <<response>>,
                                   !.next_action_type = "tool_call",
                                   !.intent = "tool_call_detected"])
    ELSE Update({"messages", "intent"},
                [EmptyState EXCEPT !.messages = <<response>>,
                                   !.intent = "chat"])

planner_node(response) ==
    IF response.tool_calls # <<>>
    THEN Update({"messages", "next_action_type", "intent"},
                [EmptyState EXCEPT !.messages = <<response>>,
                                   !.next_action_type = "tool_call",
                                   !.intent = "tool_call_detected"])
    ELSE Update({"messages", "next_action_type", "intent"},
                [EmptyState EXCEPT !.messages = <<response>>,
                                   !.next_action_type = "final_answer",
                                   !.intent = "chat"])

\* mutant: an unconditional edge planner -> tool_executor
Route_unconditional(s) == "tool_executor"

\* graph.add_conditional_edges("planner", lambda state: state["next_action_type"], ...)
Route(s) ==
    IF s.next_action_type = "tool_call" THEN "tool_executor"
    ELSE IF s.next_action_type = "final_answer" THEN "chat_response_generator"
    ELSE "failed"

Planner(t) ==
    /\ pc[t] = "planner"
    /\ \E o \in scope[t].replies :
        LET u == planner_node(Response(o, nextId[t]))
            s1 == ApplyUpdate(state[t], u)
        IN /\ state' = [state EXCEPT ![t] = s1]
           /\ last' = Step(t, "planner", FALSE, u)
           /\ pc' = [pc EXCEPT ![t] = Route(s1)]
           /\ nextId' = [nextId EXCEPT ![t] = @ + 1 + Len(o.names)]
    /\ trace' = [trace EXCEPT ![t] = Append(@, "planner")]
    /\ UNCHANGED <<outside, vectorstore, budget, invoked, summarizerCalls, evicted, cycles>>

\* planner_chain.invoke raises
PlannerFail(t) ==
    /\ pc[t] = "planner"
    /\ last' = Step(t, "planner", TRUE, NoUpdate)
    /\ pc' = [pc EXCEPT ![t] = "failed"]
    /\ trace' = [trace EXCEPT ![t] = Append(@, "planner")]
    /\ UNCHANGED <<outside, state, vectorstore, nextId, budget, invoked,
                   summarizerCalls, evicted, cycles>>

\* ------------------------------------------------------ tool executor node
Registered(name) == \E i \in 1..Len(tools) : tools[i] = name

\* the memory fields the executor adds to the arguments of a call
Injected(name) == ToolParams(name) \cap {"long_term_summary", "retrieved_context"}

\* mutant: the loop stops after the first request
CallsToProcess_firstOnly(calls) == Take(calls, 1)

\* for tool_call in last_ai_message.tool_calls
CallsToProcess(calls) == calls

\* mutant: the error branch tags the ToolMessage with the wrong id
ToolResult_wrongId(call, outcome, id) ==
    IF Registered(call.name)
    THEN IF outcome = "ok"
         THEN ToolMessage(id, TOOL_RESULT, call.id)
         ELSE ToolMessage(id, EXEC_ERROR, id)
    ELSE ToolMessage(id, NOT_FOUND, call.id)

\* mutant: an unregistered name falls into the error branch
ToolResult_unknownAsError(call, outcome, id) ==
    IF Registered(call.name) /\ outcome = "ok"
    THEN ToolMessage(id, TOOL_RESULT, call.id)
    ELSE ToolMessage(id, EXEC_ERROR, call.id)

\* the ToolMessage for one request; outcome is what tool_to_run.invoke did
ToolResult(call, outcome, id) ==
    IF Registered(call.name)
    THEN IF outcome = "ok"
         THEN ToolMessage(id, TOOL_RESULT, call.id)
         ELSE ToolMessage(id, EXEC_ERROR, call.id)
    ELSE ToolMessage(id, NOT_FOUND, call.id)

\* mutant: the executor also returns a turn of its own after the results
tool_executor_node_chatty(s, outcomes, id) ==
    LET last_ai_message == s.messages[Len(s.messages)]
        calls == CallsToProcess(last_ai_message.tool_calls)
    IN IF last_ai_message.tool_calls = <<>>
       THEN MessagesOnly(<<AIMessage(id, NO_TOOL_CALLS, <<>>)>>)
       ELSE MessagesOnly([k \in 1..Len(calls) + 1 |->
                            IF k <= Len(calls)
                            THEN ToolResult(calls[k], outcomes[k], id + k - 1)
                            ELSE AIMessage(id + k - 1, "text", <<>>)])

tool_executor_node(s, outcomes, id) ==
    LET last_ai_message == s.messages[Len(s.messages)]
        calls == CallsToProcess(last_ai_message.tool_calls)
    IN IF last_ai_message.tool_calls = <<>>
       THEN MessagesOnly(<<AIMessage(id, NO_TOOL_CALLS, <<>>)>>)
       ELSE MessagesOnly([k \in 1..Len(calls) |->
                            ToolResult(calls[k], outcomes[k], id + k - 1)])

IsRegisteredCall(call) == Registered(call.name)

\* the tool_to_run.invoke calls the loop makes, in order
Invocations(s) ==
    LET calls == CallsToProcess(s.messages[Len(s.messages)].tool_calls)
        run == SelectSeq(calls, IsRegisteredCall)
    IN [k \in 1..Len(run) |->
          [name |-> run[k].name, id |-> run[k].id,
           injected |-> Injected(run[k].name)]]

LastToolCalls(s) == s.messages[Len(s.messages)].tool_calls

\* the node ran to its return statement with these tool outcomes
ToolExecutorReturns(t, outcomes) ==
    /\ LET u == tool_executor_node(state[t], outcomes, nextId[t])
       IN /\ state' = [state EXCEPT ![t] = ApplyUpdate(state[t], u)]
          /\ last' = [Step(t, "tool_executor", FALSE, u) EXCEPT
                        !.outcomes = outcomes]
          /\ nextId' = [nextId EXCEPT ![t] = @ + Len(u.vals.messages)]
    /\ invoked' = [invoked EXCEPT ![t] = @ \o Invocations(state[t])]
    /\ pc' = [pc EXCEPT ![t] = "chat_response_generator"]
    /\ trace' = [trace EXCEPT ![t] = Append(@, "tool_executor")]
    /\ UNCHANGED <<outside, vectorstore, budget, summarizerCalls, evicted, cycles>>

\* mutant: no try/except around tool_to_run.invoke, a raising tool ends the turn
ToolExecutor_uncaught(t) ==
    /\ pc[t] = "tool_executor"
    /\ \E outcomes \in [1..Len(LastToolCalls(state[t])) -> ToolOutcomes] :
         IF \E k \in DOMAIN outcomes :
               /\ Registered(LastToolCalls(state[t])[k].name)
               /\ outcomes[k] = "raise"
         THEN /\ last' = [Step(t, "tool_executor", TRUE, NoUpdate) EXCEPT
                            !.outcomes = outcomes]
              /\ pc' = [pc EXCEPT ![t] = "failed"]
              /\ trace' = [trace EXCEPT ![t] = Append(@, "tool_executor")]
              /\ UNCHANGED <<outside, state, vectorstore, nextId, budget, invoked,
                             summarizerCalls, evicted, cycles>>
         ELSE ToolExecutorReturns(t, outcomes)

ToolExecutor(t) ==
    /\ pc[t] = "tool_executor"
    /\ \E outcomes \in [1..Len(LastToolCalls(state[t])) -> ToolOutcomes] :
         ToolExecutorReturns(t, outcomes)

\* ------------------------------------------------- response generator node
chat_response_generator_node(id) == MessagesOnly(<<AIMessage(id, "answer", <<>>)>>)

ChatResponseGenerator(t) ==
    /\ pc[t] = "chat_response_generator"
    /\ LET u == chat_response_generator_node(nextId[t])
       IN /\ state' = [state EXCEPT ![t] = ApplyUpdate(state[t], u)]
          /\ last' = Step(t, "chat_response_generator", FALSE, u)
    /\ nextId' = [nextId EXCEPT ![t] = @ + 1]
    /\ pc' = [pc EXCEPT ![t] = "idle"]
    /\ trace' = [trace EXCEPT ![t] = Append(@, "chat_response_generator")]
    /\ UNCHANGED <<outside, vectorstore, budget, invoked, summarizerCalls, evicted, cycles>>

\* main_chat_chain.invoke raises
ChatResponseGeneratorFail(t) ==
    /\ pc[t] = "chat_response_generator"
    /\ last' = Step(t, "chat_response_generator", TRUE, NoUpdate)
    /\ pc' = [pc EXCEPT ![t] = "failed"]
    /\ trace' = [trace EXCEPT ![t] = Append(@, "chat_response_generator")]
    /\ UNCHANGED <<outside, state, vectorstore, nextId, budget, invoked,
                   summarizerCalls, evicted, cycles>>

\* ---------------------------------------------------------- specification
Next ==
    \E t \in Threads :
        \/ UserTurn(t)
        \/ SystemTurn(t)
        \/ ManageMemoryKeep(t)
        \/ ManageMemoryEvict(t)
        \/ ManageMemoryFail(t)
        \/ RetrieveMemory(t)
        \/ Planner(t)
        \/ PlannerFail(t)
        \/ ToolExecutor(t)
        \/ ChatResponseGenerator(t)
        \/ ChatResponseGeneratorFail(t)

Spec == Init /\ [][Next]_vars

SpecShared == InitShared /\ [][Next]_vars

SpecLong == InitLong /\ [][Next]_vars

\* ===================================================================
\* The calculator tool of the registry (graph.py)
\* ===================================================================
\* An expression is a sequence of lexemes written without separators: the
\* characters "1", "+", "(", ")" and the identifier "abs", a name that
\* Python's builtins define.
ExprAlphabet == {"1", "+", "(", ")", "abs"}
Expressions == UNION { [1..n -> ExprAlphabet] : n \in 1..MaxExprLen }

IsDigit(c) == c = "1"
IsNameStart(c) == c = "abs"
IsNameChar(c) == IsNameStart(c) \/ IsDigit(c)

\* values of eval: an int, the empty tuple, a builtin function object
IntValue(n) == [t |-> "int", n |-> n]
TupleValue == [t |-> "tuple", n |-> 0]
FuncValue == [t |-> "func", n |-> 0]

\* a parse position that is a SyntaxError, NameError or TypeError
Fail == [ok |-> FALSE, v |-> NoValue, next |-> 0]
Ok(v, next) == [ok |-> TRUE, v |-> v, next |-> next]

At(s, i) == IF i \in DOMAIN s THEN s[i] ELSE "<end>"

\* end of the run of digits / of identifier characters that starts at i
RECURSIVE DigitsEnd(_, _)
DigitsEnd(s, i) == IF IsDigit(At(s, i)) THEN DigitsEnd(s, i + 1) ELSE i

RECURSIVE NameEnd(_, _)
NameEnd(s, i) == IF IsNameChar(At(s, i)) THEN NameEnd(s, i + 1) ELSE i

RECURSIVE Repunit(_)
Repunit(k) == IF k = 0 THEN 0 ELSE 10 * Repunit(k - 1) + 1

RECURSIVE ParseExpr(_, _), ParseExprRest(_, _), ParseUnary(_, _),
          ParseTrailers(_, _), ParseAtom(_, _)

\* atom: a number, a name, "()" or a parenthesised expression
ParseAtom(s, i) ==
    IF IsDigit(At(s, i))
    THEN LET j == DigitsEnd(s, i)
         IN IF IsNameStart(At(s, j)) THEN Fail
            ELSE Ok(IntValue(Repunit(j - i)), j)
    ELSE IF IsNameStart(At(s, i))
    THEN LET j == NameEnd(s, i)
         IN IF j = i + 1 THEN Ok(FuncValue, j)      \* the builtin abs
            ELSE Fail                                 \* NameError
    ELSE IF At(s, i) = "("
    THEN IF At(s, i + 1) = ")" THEN Ok(TupleValue, i + 2)
         ELSE LET e == ParseExpr(s, i + 1)
              IN IF e.ok /\ At(s, e.next) = ")" THEN Ok(e.v, e.next + 1)
                 ELSE Fail
    ELSE Fail

\* call trailers after a primary: only abs(<int>) does not raise
ParseTrailers(s, p) ==
    IF ~p.ok \/ At(s, p.next) # "(" THEN p
    ELSE IF At(s, p.next + 1) = ")" THEN Fail
    ELSE LET a == ParseExpr(s, p.next + 1)
         IN IF a.ok /\ At(s, a.next) = ")" /\ p.v.t = "func" /\ a.v.t = "int"
            THEN ParseTrailers(s, Ok(a.v, a.next + 1))
            ELSE Fail

\* unary plus binds looser than a call
ParseUnary(s, i) ==
    IF At(s, i) = "+"
    THEN LET u == ParseUnary(s, i + 1)
         IN IF u.ok /\ u.v.t = "int" THEN u ELSE Fail
    ELSE ParseTrailers(s, ParseAtom(s, i))

\* left-associative sums: int + int and () + ()
ParseExprRest(s, l) ==
    IF ~l.ok \/ At(s, l.next) # "+" THEN l
    ELSE LET r == ParseUnary(s, l.next + 1)
         IN IF r.ok /\ l.v.t = "int" /\ r.v.t = "int"
            THEN ParseExprRest(s, Ok(IntValue(l.v.n + r.v.n), r.next))
            ELSE IF r.ok /\ l.v.t = "tuple" /\ r.v.t = "tuple"
            THEN ParseExprRest(s, Ok(TupleValue, r.next))
            ELSE Fail

ParseExpr(s, i) == ParseExprRest(s, ParseUnary(s, i))

\* eval(expression) with the module's globals, builtins included
Eval(expression) ==
    LET r == ParseExpr(expression, 1)
    IN IF r.ok /\ r.next = Len(expression) + 1 THEN r ELSE Fail

\* graph.py calculator: str(eval(expression)), any exception turned into an
\* error text
calculator(expression) ==
    LET r == Eval(expression)
    IN IF r.ok THEN [kind |-> "value", value |-> r.v]
       ELSE [kind |-> "error", value |-> NoValue]

\* the executor dispatches a calculator request
InitCalc ==
    /\ InitGraph
    /\ budget = [t \in Threads |-> 0]
    /\ scope = [t \in Threads |-> Silent]
    /\ sql = SqlIdle
    /\ \E e \in Expressions :
          calc = [CalcIdle EXCEPT !.pc = "called", !.expression = e]

Calculator ==
    /\ calc.pc = "called"
    /\ calc' = [calc EXCEPT !.pc = "returned",
                            !.output = calculator(calc.expression)]
    /\ UNCHANGED <<state, pc, vectorstore, nextId, budget, trace, invoked,
                   summarizerCalls, evicted, cycles, scope, sql, last>>

NextCalc == Calculator

SpecCalc == InitCalc /\ [][NextCalc]_vars

\* ===================================================================
\* The /outlets endpoint's SQL post-processing (api/start_api.py)
\* ===================================================================
\* An SQL text is a sequence of lexemes written without separators: a
\* whitespace character, a punctuation character, or a word (a maximal run
\* of word characters).  A single backtick is a lexeme; a code fence is three
\* of them.
Backtick == "<backtick>"
Punctuation == {Backtick, "*", ";", ":", ",", "(", ")", "'", "%", "\"", "=", "."}
IsWord(x) == ~IsSpace(x) /\ x \notin Punctuation /\ x # "<end>"

\* case folding of the words that the patterns compare under re.IGNORECASE
Upper(x) ==
    CASE x \in {"select", "Select"} -> "SELECT"
      [] x = "from" -> "FROM"
      [] x = "where" -> "WHERE"
      [] x = "like" -> "LIKE"
      [] x = "sql" -> "SQL"
      [] x = "SQLQuery" -> "SQLQUERY"
      [] x = "Query" -> "QUERY"
      [] x = "address" -> "ADDRESS"
      [] x = "full_description" -> "FULL_DESCRIPTION"
      [] x = "services" -> "SERVICES"
      [] OTHER -> x

\* first position >= i that is not whitespace
RECURSIVE SkipWs(_, _)
SkipWs(s, i) == IF IsSpace(At(s, i)) THEN SkipWs(s, i + 1) ELSE i

IsFenceAt(s, i) == At(s, i) = Backtick /\ At(s, i + 1) = Backtick /\ At(s, i + 2) = Backtick

\* first position j >= i where \s* and a closing fence match, 0 if none
RECURSIVE CloseFrom(_, _)
CloseFrom(s, i) ==
    IF i > Len(s) THEN 0
    ELSE IF IsFenceAt(s, SkipWs(s, i)) THEN i
    ELSE CloseFrom(s, i + 1)

\* block_pattern, fence (?:sql|SQL|SQLQuery|mysql|postgresql)?\s*(.*?)\s*
\* fence, read at an opening fence at i.  The alternation takes the first alternative that
\* lets the rest match, so of a label SQLQuery it takes SQL and leaves
\* Query to the content.
FenceMatch(s, i) ==
    LET label == At(s, i + 3)
        split == label = "SQLQuery"
        labelled == label \in {"sql", "SQL", "mysql", "postgresql"}
        body == IF split THEN i + 4
                ELSE SkipWs(s, IF labelled THEN i + 4 ELSE i + 3)
        close == CloseFrom(s, body)
        found == IsFenceAt(s, i) /\ close # 0
    IN [found |-> found,
        content |-> IF found
                    THEN (IF split THEN <<"Query">> ELSE <<>>)
                         \o SubSeq(s, body, close - 1)
                    ELSE <<>>,
        next |-> SkipWs(s, close) + 3]

\* step 1: re.sub(block_pattern, r"\1", text, flags=re.DOTALL)
RECURSIVE Unfence(_, _)
Unfence(s, i) ==
    IF i > Len(s) THEN <<>>
    ELSE LET m == FenceMatch(s, i)
         IN IF m.found THEN m.content \o Unfence(s, m.next)
            ELSE <<s[i]>> \o Unfence(s, i + 1)

\* step 2: re.sub(prefix_pattern, "", text, flags=re.IGNORECASE), the
\* pattern anchored at the start of the text
StripPrefix(s) ==
    LET q == SkipWs(s, 2)
        colon == IF Upper(At(s, 1)) = "SQL" /\ Upper(At(s, q)) = "QUERY"
                    /\ At(s, SkipWs(s, q + 1)) = ":"
                 THEN SkipWs(s, q + 1)
                 ELSE IF Upper(At(s, 1)) \in {"SQLQUERY", "MYSQL", "POSTGRESQL", "SQL"}
                         /\ At(s, q) = ":"
                 THEN q
                 ELSE 0
    IN IF colon = 0 THEN s ELSE Drop(s, SkipWs(s, colon + 1) - 1)

\* first position >= i holding lexeme x (compared after folding), 0 if none
RECURSIVE Find(_, _, _)
Find(s, x, i) ==
    IF i > Len(s) THEN 0
    ELSE IF Upper(s[i]) = x THEN i
    ELSE Find(s, x, i + 1)

\* step 3: re.search(r"(SELECT.*?;)", IGNORECASE | DOTALL); the text becomes
\* the match when there is one
ExtractStatement(s) ==
    LET b == Find(s, "SELECT", 1)
        e == IF b = 0 THEN 0 ELSE Find(s, ";", b + 1)
    IN IF e = 0 THEN s ELSE SubSeq(s, b, e)

IsBacktick(x) == x = Backtick

\* step 4: re.sub of a backtick pair by what it encloses: backticks go pair
\* by pair, an
\* odd last one stays
RECURSIVE Unquote(_, _)
Unquote(s, open) ==
    IF s = <<>> THEN <<>>
    ELSE IF Head(s) = Backtick
    THEN IF open \/ Len(SelectSeq(Tail(s), IsBacktick)) > 0
         THEN Unquote(Tail(s), ~open)
         ELSE <<Backtick>> \o Unquote(Tail(s), FALSE)
    ELSE <<Head(s)>> \o Unquote(Tail(s), open)

\* step 5: re.sub(r'\s+', ' ', text)
RECURSIVE CollapseWs(_)
CollapseWs(s) ==
    IF s = <<>> THEN <<>>
    ELSE IF IsSpace(Head(s))
    THEN <<" ">> \o CollapseWs(Drop(s, SkipWs(s, 1) - 1))
    ELSE <<Head(s)>> \o CollapseWs(Tail(s))

keywords ==
    {"SELECT", "FROM", "WHERE", "HAVING", "LIMIT", "JOIN", "UNION", "VALUES",
     "INSERT", "UPDATE", "DELETE"}
keywordPairs ==
    { <<"GROUP", "BY">>, <<"ORDER", "BY">>, <<"LEFT", "JOIN">>,
      <<"RIGHT", "JOIN">>, <<"INNER", "JOIN">>, <<"OUTER", "JOIN">> }

\* \b before position i and after position i
BoundaryBefore(s, i) == ~IsWord(At(s, i - 1))
BoundaryAfter(s, i) == ~IsWord(At(s, i + 1))

\* step 6: re.sub('(\bSELECT\b|\bFROM\b|...)', r'\n\1', IGNORECASE): a
\* newline goes in front of every keyword that stands as a word of its own
RECURSIVE BreakBeforeKeywords(_, _)
BreakBeforeKeywords(s, i) ==
    IF i > Len(s) THEN <<>>
    ELSE IF /\ BoundaryBefore(s, i)
            /\ At(s, i + 1) = " "
            /\ <<Upper(s[i]), Upper(At(s, i + 2))>> \in keywordPairs
            /\ BoundaryAfter(s, i + 2)
    THEN <<"\n", s[i], s[i + 1], s[i + 2]>> \o BreakBeforeKeywords(s, i + 3)
    ELSE IF /\ BoundaryBefore(s, i)
            /\ Upper(s[i]) \in keywords
            /\ BoundaryAfter(s, i)
    THEN <<"\n", s[i]>> \o BreakBeforeKeywords(s, i + 1)
    ELSE <<s[i]>> \o BreakBeforeKeywords(s, i + 1)

\* last newline of the whitespace run i..j-1, 0 if it has none
RECURSIVE LastNewline(_, _, _)
LastNewline(s, i, j) ==
    IF j <= i THEN 0
    ELSE IF s[j - 1] = "\n" THEN j - 1
    ELSE LastNewline(s, i, j - 1)

\* step 8: re.sub(r'\n\s*\n', '\n', text)
RECURSIVE JoinBlankLines(_, _)
JoinBlankLines(s, i) ==
    IF i > Len(s) THEN <<>>
    ELSE LET l == IF s[i] = "\n" THEN LastNewline(s, i + 1, SkipWs(s, i + 1))
                  ELSE 0
         IN IF l # 0 THEN <<"\n">> \o JoinBlankLines(s, l + 1)
            ELSE <<s[i]>> \o JoinBlankLines(s, i + 1)

clean_sql_query(text) ==
    LET unfenced == Unfence(text, 1)
        unlabelled == StripPrefix(unfenced)
        statement == ExtractStatement(unlabelled)
        unquoted == Unquote(statement, FALSE)
        spaced == CollapseWs(unquoted)
        broken == BreakBeforeKeywords(spaced, 1)
    IN JoinBlankLines(Strip(broken), 1)

\* --------------------------------------------------------- fuzzy expansion
\* mutant: one more column in the pattern's alternation
AllowList_withName == {"ADDRESS", "FULL_DESCRIPTION", "SERVICES", "name"}

AllowList == {"ADDRESS", "FULL_DESCRIPTION", "SERVICES"}

\* end of '%(.*?)%' whose keyword starts at i: the first "%" followed by
\* "'" with no newline before it, 0 if none
RECURSIVE KeywordEnd(_, _)
KeywordEnd(s, i) ==
    IF i > Len(s) \/ s[i] = "\n" THEN 0
    ELSE IF s[i] = "%" /\ At(s, i + 1) = "'" THEN i
    ELSE KeywordEnd(s, i + 1)

\* ("address"|"full_description"|"services")\s+LIKE\s+'%(.*?)%' read at p
FilterAt(s, p) ==
    LET like == SkipWs(s, p + 3)
        quote == SkipWs(s, like + 1)
        e == KeywordEnd(s, quote + 2)
        found == /\ At(s, p) = "\"" /\ Upper(At(s, p + 1)) \in AllowList
                 /\ At(s, p + 2) = "\""
                 /\ like > p + 3 /\ Upper(At(s, like)) = "LIKE"
                 /\ quote > like + 1
                 /\ At(s, quote) = "'" /\ At(s, quote + 1) = "%"
                 /\ e # 0
    IN [found |-> found,
        column |-> IF found THEN SubSeq(s, p, p + 2) ELSE <<>>,
        keyword |-> IF found THEN SubSeq(s, quote + 2, e - 1) ELSE <<>>,
        next |-> e + 2]

\* [^;]*? after WHERE\s+: the first p, not past a ";", where the filter
\* pattern matches; 0 if none
RECURSIVE FirstFilter(_, _)
FirstFilter(s, p) ==
    IF p > Len(s) THEN 0
    ELSE IF FilterAt(s, p).found THEN p
    ELSE IF s[p] = ";" THEN 0
    ELSE FirstFilter(s, p + 1)

\* pattern.findall(sql): the matches from left to right, none overlapping
RECURSIVE FindAll(_, _)
FindAll(s, i) ==
    LET w == Find(s, "WHERE", i)
        p == IF w # 0 /\ IsSpace(At(s, w + 1)) THEN FirstFilter(s, w + 2) ELSE 0
    IN IF w = 0 THEN <<>>
       ELSE IF p = 0 THEN FindAll(s, w + 1)
       ELSE <<FilterAt(s, p)>> \o FindAll(s, FilterAt(s, p).next)

IsNotBlank(x) == x # " "

\* keyword.replace(" ", "")
NoSpace(kw) == SelectSeq(kw, IsNotBlank)

\* the text replaced: f"{column} LIKE '%{keyword}%'"
like_clause(column, keyword) ==
    column \o <<" ", "LIKE", " ", "'", "%">> \o keyword \o <<"%", "'">>

fuzzy_clause(column, keyword) ==
    <<"(">> \o like_clause(column, keyword)
    \o <<" ", "OR", " ", "REPLACE", "(">> \o column
    \o <<",", " ", "'", " ", "'", ",", " ", "'", "'", ")">>
    \o <<" ", "LIKE", " ", "'", "%">> \o NoSpace(keyword) \o <<"%", "'", ")">>

\* str.replace(old, new): every occurrence, left to right
RECURSIVE Replace(_, _, _)
Replace(s, old, new) ==
    IF Len(s) < Len(old) THEN s
    ELSE IF SubSeq(s, 1, Len(old)) = old
    THEN new \o Replace(Drop(s, Len(old)), old, new)
    ELSE <<Head(s)>> \o Replace(Tail(s), old, new)

\* the loop over the matches
RECURSIVE ExpandEach(_, _)
ExpandEach(s, matches) ==
    IF matches = <<>> THEN s
    ELSE LET m == Head(matches)
         IN ExpandEach(Replace(s, like_clause(m.column, m.keyword),
                               fuzzy_clause(m.column, m.keyword)),
                       Tail(matches))

expand_fuzzy_sql(s) == ExpandEach(s, FindAll(s, 1))

\* ------------------------------------------------- generated SQL texts
Pads == UNION { [1..n -> {" ", "\n"}] : n \in 1..MaxPad }
Keyword == <<"SS", " ", "2">>
Columns ==
    { <<"address">>, <<"\"", "address", "\"">>, <<Backtick, "address", Backtick>>,
      <<"name">> }
Tables == { <<"outlets">>, <<Backtick, "outlets", Backtick>> }

Statement(star, gap, table, filter) ==
    <<"SELECT", " ", "*">> \o star \o <<"FROM">> \o gap \o table
    \o filter \o <<";">>

Filters(gap) ==
    {<<>>} \cup { gap \o <<"WHERE", " ">> \o like_clause(c, Keyword) :
                    c \in Columns }

Statements ==
    UNION { { Statement(star, gap, table, filter) :
                star \in { <<>>, <<" ">> }, table \in Tables,
                filter \in Filters(gap) } :
            gap \in Pads }

Fence == <<Backtick, Backtick, Backtick>>

\* what the query chain returns: the statement bare, in a code fence with or
\* without a language label, or behind a label prefix; commentary may follow
Wrappings(stmt) ==
    { stmt,
      Fence \o <<"\n">> \o stmt \o <<"\n">> \o Fence,
      Fence \o <<"sql", "\n">> \o stmt \o <<"\n">> \o Fence,
      <<"SQLQuery", ":", " ">> \o stmt }

RawQueries ==
    UNION { { w \o tail : w \in Wrappings(stmt),
                          tail \in { <<>>, <<"\n", "Done">> } } :
            stmt \in Statements }

InitSql ==
    /\ InitGraph
    /\ budget = [t \in Threads |-> 0]
    /\ scope = [t \in Threads |-> Silent]
    /\ calc = CalcIdle
    /\ \E raw \in RawQueries :
          sql = [SqlIdle EXCEPT !.pc = "generated", !.raw = raw]

NotSql == <<state, pc, vectorstore, nextId, budget, trace, invoked,
            summarizerCalls, evicted, cycles, scope, calc, last>>

\* cleaned_sql_query = clean_sql_query(raw_sql_query)
CleanSql ==
    /\ sql.pc = "generated"
    /\ sql' = [sql EXCEPT !.pc = "cleaned",
                          !.cleaned = clean_sql_query(sql.raw)]
    /\ UNCHANGED NotSql

\* the sanitizer applied to its own output
CleanSqlAgain ==
    /\ sql.pc = "cleaned"
    /\ sql' = [sql EXCEPT !.pc = "recleaned",
                          !.again = clean_sql_query(sql.cleaned)]
    /\ UNCHANGED NotSql

\* fuzzy_sql_query = expand_fuzzy_sql(cleaned_sql_query)
ExpandSql ==
    /\ sql.pc = "cleaned"
    /\ sql' = [sql EXCEPT !.pc = "expanded",
                          !.fuzzy = expand_fuzzy_sql(sql.cleaned)]
    /\ UNCHANGED NotSql

NextSql == CleanSql \/ CleanSqlAgain \/ ExpandSql

SpecSql == InitSql /\ [][NextSql]_vars

\* ------------------------------------- generated statements with filters
Quoted(column) == <<"\"", column, "\"">>

\* one filter: LIKE on an allow-listed column, LIKE and equality on another
FilterAtoms ==
    { like_clause(Quoted("address"), Keyword),
      like_clause(Quoted("services"), <<"wifi">>),
      like_clause(Quoted("name"), Keyword),
      Quoted("name") \o <<" ", "=", " ", "'", "KLCC", "'">> }

RECURSIVE JoinFilters(_, _)
JoinFilters(fs, connective) ==
    IF Len(fs) = 1 THEN fs[1]
    ELSE fs[1] \o <<" ", connective, " ">> \o JoinFilters(Tail(fs), connective)

SelectFrom == <<"SELECT", " ", "*", " ", "FROM", " ", "outlets">>
SelectWhere(condition) == SelectFrom \o <<" ", "WHERE", " ">> \o condition

\* a statement with no WHERE clause, with one WHERE clause of up to
\* MaxFilters filters joined by AND or OR, or with two WHERE clauses
FilterQueries ==
    { SelectFrom \o <<";">> }
    \cup { SelectWhere(JoinFilters(fs, connective)) \o <<";">> :
             fs \in UNION { [1..n -> FilterAtoms] : n \in 1..MaxFilters },
             connective \in {"AND", "OR"} }
    \cup { SelectWhere(f) \o <<" ", "UNION", " ">> \o SelectWhere(g) \o <<";">> :
             f \in FilterAtoms, g \in FilterAtoms }

InitFilters ==
    /\ InitGraph
    /\ budget = [t \in Threads |-> 0]
    /\ scope = [t \in Threads |-> Silent]
    /\ calc = CalcIdle
    /\ \E raw \in FilterQueries :
          sql = [SqlIdle EXCEPT !.pc = "generated", !.raw = raw]

SpecFilters == InitFilters /\ [][NextSql]_vars

\* ===================================================================
\* Properties
\* ===================================================================
R == MAX_RECENT_MESSAGES
B == MESSAGES_TO_SUMMARIZE_PER_BATCH

AfterNode(node) == last.node = node /\ ~last.raised
ConvBefore == Conversational(last.before.messages)
Returned == last.ret.vals

\* C1: when manage_memory_node runs on a state with exactly R+1 non-system
\* turns it calls the summarizer once, returns the summarizer's (stripped)
\* text as long_term_summary, and returns as messages every system turn
\* followed by the newest R+1-B conversational turns in their order.
C1_EvictionAtThreshold ==
    (AfterNode("manage_memory") /\ Len(ConvBefore) = R + 1) =>
        /\ summarizerCalls = last.callsBefore + 1
        /\ {"messages", "long_term_summary"} \subseteq last.ret.keys
        /\ Returned.long_term_summary = Strip(last.raw)
        /\ SystemMessages(Returned.messages) = SystemMessages(last.before.messages)
        /\ Conversational(Returned.messages) = SubSeq(ConvBefore, B + 1, R + 1)
        /\ Len(Conversational(Returned.messages)) = R + 1 - B
        /\ Len(Returned.messages) =
             Len(SystemMessages(last.before.messages)) + R + 1 - B

\* a state with a system turn and exactly R+1 conversational turns was trimmed
C1_Witness ==
    /\ AfterNode("manage_memory")
    /\ Len(ConvBefore) = R + 1
    /\ SystemMessages(last.before.messages) # <<>>
    /\ last.raw = <<" ", "s", " ">>

\* C2: with R or fewer non-system turns manage_memory_node changes nothing:
\* every channel of the thread, the index and the summarizer call count are
\* what they were before the node ran.
C2_NoOpAtOrBelowThreshold ==
    (last.node = "manage_memory" /\ Len(ConvBefore) <= R) =>
        /\ ~last.raised
        /\ Returned = last.before
        /\ state[last.thread] = last.before
        /\ vectorstore = last.indexBefore
        /\ summarizerCalls = last.callsBefore

\* the node ran on exactly R conversational turns
C2_Witness ==
    /\ last.node = "manage_memory"
    /\ Len(ConvBefore) = R
    /\ pc[last.thread] = "retrieve_memory"

\* C3 (as claimed): a turn that manage_memory_node dropped is in no later
\* state of its thread.
C3_EvictedTurnsAbsent ==
    \A t \in Threads : Ids(state[t].messages) \cap evicted[t] = {}

\* C4: when the summarizer call raises, the thread's state and the index are
\* what they were before the node ran, and the turn has failed.
C4_FailureLeavesStateUntouched ==
    (last.node = "manage_memory" /\ last.raised) =>
        /\ Len(ConvBefore) > R
        /\ state[last.thread] = last.before
        /\ vectorstore = last.indexBefore
        /\ pc[last.thread] = "failed"

C4_Witness ==
    /\ last.node = "manage_memory"
    /\ last.raised
    /\ Len(ConvBefore) > R

CallsBefore == LastToolCalls(last.before)
InRegistry(name) == name \in { tools[i] : i \in 1..Len(tools) }
IsToolResultFor(m, call) == m.type = "tool" /\ m.tool_call_id = call.id

\* C5: a planner turn with exactly one request naming a registered tool makes
\* the executor return exactly one message, a tool result carrying the
\* request's call id, and that message is what the thread's list gains.
C5_OneResultSameId ==
    (AfterNode("tool_executor") /\ Len(CallsBefore) = 1
        /\ InRegistry(CallsBefore[1].name)) =>
        /\ Len(Returned.messages) = 1
        /\ IsToolResultFor(Returned.messages[1], CallsBefore[1])
        /\ state[last.thread].messages = last.before.messages \o Returned.messages

\* the single registered tool raised
C5_Witness ==
    /\ AfterNode("tool_executor")
    /\ Len(CallsBefore) = 1
    /\ InRegistry(CallsBefore[1].name)
    /\ last.outcomes[1] = "raise"

RegisteredCalls(calls) == SelectSeq(calls, IsRegisteredCall)

C7_UnknownToolNotFound ==
    (last.node = "tool_executor") =>
        \A k \in 1..Len(CallsBefore) :
            ~InRegistry(CallsBefore[k].name) =>
                /\ ~last.raised
                /\ IsToolResultFor(Returned.messages[k], CallsBefore[k])
                /\ Returned.messages[k].content = NOT_FOUND
                /\ \A j \in 1..Len(invoked[last.thread]) :
                      invoked[last.thread][j].id # CallsBefore[k].id
                /\ pc[last.thread] = "chat_response_generator"

C7_Witness ==
    /\ AfterNode("tool_executor")
    /\ Len(CallsBefore) = 1
    /\ ~InRegistry(CallsBefore[1].name)
    /\ invoked[last.thread] = <<>>

LastMessage(t) == state[t].messages[Len(state[t].messages)]

\* C8: a registered tool that raises does not end the turn: the executor
\* returns a tool result with the error text and the request's id, the
\* response generator is next, and a turn that went through the executor
\* and completed ends with the response generator's answer.
C8_ToolFailureBecomesTurn ==
    /\ (last.node = "tool_executor") =>
         /\ ~last.raised
         /\ pc[last.thread] = "chat_response_generator"
         /\ \A k \in 1..Len(CallsBefore) :
               (InRegistry(CallsBefore[k].name) /\ last.outcomes[k] = "raise") =>
                   /\ IsToolResultFor(Returned.messages[k], CallsBefore[k])
                   /\ Returned.messages[k].content = EXEC_ERROR
    /\ \A t \in Threads :
         (pc[t] = "idle" /\ \E i \in 1..Len(trace[t]) : trace[t][i] = "tool_executor") =>
             /\ trace[t][Len(trace[t])] = "chat_response_generator"
             /\ LastMessage(t).type = "ai"
             /\ LastMessage(t).content = "answer"

\* a turn in which the tool raised has completed
C8_Witness ==
    \E t \in Threads :
        /\ pc[t] = "idle"
        /\ \E i \in 1..Len(state[t].messages) :
              /\ state[t].messages[i].type = "tool"
              /\ state[t].messages[i].content = EXEC_ERROR
        /\ LastMessage(t).content = "answer"

Classifications == {"tool_call", "final_answer"}

\* C9: the planner returns exactly one of tool_call and final_answer, and it
\* returns tool_call exactly when the oracle's reply carries a tool-call
\* request, with or without text; nothing else is ever in the channel.
C9_PlannerClassification ==
    /\ AfterNode("planner") =>
         /\ Returned.next_action_type \in Classifications
         /\ (Returned.next_action_type = "tool_call"
               <=> Returned.messages[1].tool_calls # <<>>)
         /\ state[last.thread].next_action_type = Returned.next_action_type
    /\ \A t \in Threads :
         state[t].next_action_type \in Classifications \cup {NoAction}

\* a reply with both text and a request was classified
C9_Witness ==
    /\ AfterNode("planner")
    /\ Returned.messages[1].content # ""
    /\ Returned.messages[1].tool_calls # <<>>
    /\ Returned.next_action_type = "tool_call"

ToolPath == <<"manage_memory", "retrieve_memory", "planner", "tool_executor",
              "chat_response_generator">>
AnswerPath == <<"manage_memory", "retrieve_memory", "planner",
                "chat_response_generator">>
IsPrefix(p, q) == Len(p) <= Len(q) /\ SubSeq(q, 1, Len(p)) = p
Ran(t, node) == \E i \in 1..Len(trace[t]) : trace[t][i] = node

\* C10: the nodes of a turn run in the order manage_memory, retrieve_memory,
\* planner, tool_executor (only after a tool_call classification),
\* chat_response_generator, each at most once; a turn that completes ran the
\* response generator once and last.
C10_PipelineOrder ==
    \A t \in Threads :
        /\ IsPrefix(trace[t], ToolPath) \/ IsPrefix(trace[t], AnswerPath)
        /\ Ran(t, "tool_executor") => state[t].next_action_type = "tool_call"
        /\ (Ran(t, "chat_response_generator")
              /\ state[t].next_action_type = "tool_call") => trace[t] = ToolPath
        /\ (pc[t] = "idle" /\ trace[t] # <<>>) => trace[t] \in {ToolPath, AnswerPath}

C10_Witness ==
    \E t \in Threads : pc[t] = "idle" /\ trace[t] = ToolPath

\* ------------------------------------------------------- C11 .. C17
HasHuman(msgs) == \E i \in DOMAIN msgs : msgs[i].type = "human"

LastHumanIndex(msgs) ==
    CHOOSE i \in DOMAIN msgs :
        /\ msgs[i].type = "human"
        /\ \A j \in DOMAIN msgs : j > i => msgs[j].type # "human"

\* the turns of the invocation in progress or just ended: from the user's
\* turn on
TurnSuffix(msgs) == Drop(msgs, LastHumanIndex(msgs) - 1)

\* C11: an invocation that took the tool path with one tool request leaves
\* exactly four new turns at the end of the thread's history: the user's
\* turn, the planner's tool-call turn, the tool-result turn answering that
\* call, and the final assistant turn.
C11_ToolPathFourTurns ==
    \A t \in Threads :
        ( /\ pc[t] = "idle"
          /\ trace[t] = ToolPath
          /\ HasHuman(state[t].messages)
          /\ Len(TurnSuffix(state[t].messages)) >= 2
          /\ Len(TurnSuffix(state[t].messages)[2].tool_calls) = 1 )
        => LET turn == TurnSuffix(state[t].messages)
           IN /\ Len(turn) = 4
              /\ [i \in 1..4 |-> turn[i].type] = <<"human", "ai", "tool", "ai">>
              /\ \A i \in 1..3 : turn[i].id < turn[i + 1].id
              /\ turn[3].tool_call_id = turn[2].tool_calls[1].id
              /\ turn[4].tool_calls = <<>>
              /\ turn[4].id = nextId[t] - 1
              /\ turn[4] = LastMessage(t)

C11_Witness ==
    /\ pc[MainThread] = "idle"
    /\ trace[MainThread] = ToolPath
    /\ Len(state[MainThread].messages) = 4
    /\ state[MainThread].messages[2].type = "ai"
    /\ Len(state[MainThread].messages[2].tool_calls) = 1
    /\ state[MainThread].messages[4].type = "ai"

\* C12: retrieval yields an empty context whenever the index holds only its
\* placeholder entry or the history has no user turn.
C12_RetrievalEmptyWithoutIndexOrQuery ==
    ( /\ AfterNode("retrieve_memory")
      /\ \/ Len(last.indexBefore) = 1
         \/ ~HasHuman(last.before.messages) )
    => /\ Returned.retrieved_context = <<>>
       /\ state[last.thread].retrieved_context = <<>>

C12_Witness ==
    /\ AfterNode("retrieve_memory")
    /\ Len(last.indexBefore) > 1
    /\ ~HasHuman(last.before.messages)
    /\ last.before.messages # <<>>
    /\ state[last.thread].retrieved_context = <<>>

\* C13: retrieval changes no turn, no summary and no index entry, and the
\* context it stores is the hits of this search alone (at most SEARCH_K
\* distinct index entries), not an extension of the context held before.
C13_RetrievalReadOnlyReplaces ==
    AfterNode("retrieve_memory")
    => LET now == state[last.thread]
       IN /\ now.messages = last.before.messages
          /\ now.long_term_summary = last.before.long_term_summary
          /\ now.next_action_type = last.before.next_action_type
          /\ now.intent = last.before.intent
          /\ vectorstore = last.indexBefore
          /\ now.retrieved_context = Returned.retrieved_context
          /\ \/ now.retrieved_context = <<>>
             \/ \E r \in Rankings(last.indexBefore, SEARCH_K) :
                   now.retrieved_context = PageContents(last.indexBefore, r)

C13_Witness ==
    /\ AfterNode("retrieve_memory")
    /\ last.before.retrieved_context \notin {NoContext, <<>>}
    /\ state[last.thread].retrieved_context # <<>>
    /\ Len(last.before.messages) > 1

\* C14: when N summarizer invocations have returned on a thread, N eviction
\* cycles have happened there, the stored summary is the N-th output, and
\* each invocation was given the previous output as existing summary (the
\* first one the default text).  Every invocation either completed a cycle
\* or ended its graph invocation in the memory node.
C14_SummaryChain ==
    /\ \A t \in Threads :
          LET n == Len(cycles[t])
          IN /\ n = 0 => state[t].long_term_summary = NoSummary
             /\ n > 0 => /\ state[t].long_term_summary = cycles[t][n].summary
                          /\ cycles[t][1].existing = MemoryDefaultSummary
             /\ \A k \in 2..n :
                   cycles[t][k].existing = cycles[t][k - 1].summary
    /\ summarizerCalls =
         Len(cycles["A"]) + Len(cycles["B"])
         + Cardinality({ t \in Threads : /\ pc[t] = "failed"
                                          /\ trace[t] = <<"manage_memory">> })

C14_Witness ==
    /\ Len(cycles[MainThread]) = 2
    /\ cycles[MainThread][2].existing = cycles[MainThread][1].summary
    /\ cycles[MainThread][2].summary # cycles[MainThread][1].summary
    /\ state[MainThread].long_term_summary = cycles[MainThread][2].summary
    /\ pc[MainThread] = "idle"

\* C15: the summarizer is never invoked with an empty batch: whenever the
\* memory node goes past the threshold, the batch it formats holds at least
\* one user or assistant turn.
C15_BatchNeverEmpty ==
    ( /\ last.node = "manage_memory"
      /\ Len(ConvBefore) > R )
    => /\ last.summarized # <<>>
       /\ \A i \in DOMAIN last.summarized :
             last.summarized[i].type \in {"human", "ai"}

C15_Witness ==
    /\ AfterNode("manage_memory")
    /\ Len(ConvBefore) > R
    /\ Len(last.summarized) < B
    /\ last.summarized # <<>>

IsBlank(text) == \A i \in DOMAIN text : text[i] = " "

\* C16: the vector index only grows, and only by an eviction cycle: a cycle
\* with a non-blank summarizer reply appends exactly one entry, the stored
\* summary; a cycle with a blank reply and every other step leave it as it
\* was.  The placeholder stays first.
C16_IndexGrowsOnlyByEviction ==
    /\ IsPrefix(InitIndex, vectorstore)
    /\ vectorstore =
         IF /\ AfterNode("manage_memory")
            /\ Len(ConvBefore) > R
            /\ ~IsBlank(last.raw)
         THEN Append(last.indexBefore, state[last.thread].long_term_summary)
         ELSE last.indexBefore
    /\ \A i \in 2..Len(vectorstore) :
          /\ vectorstore[i] # <<>>
          /\ vectorstore[i][1] # " "
          /\ vectorstore[i][Len(vectorstore[i])] # " "

C16_Witness ==
    /\ AfterNode("manage_memory")
    /\ Len(ConvBefore) > R
    /\ last.raw = <<" ", "s", " ">>
    /\ vectorstore = Append(last.indexBefore, <<"s">>)

\* C17: a step taken for one thread_id leaves the checkpointed state of
\* every other thread_id as it was.
C17_ThreadStateIsolated ==
    [][\A a \in Threads :
          pc'[a] # pc[a] => \A b \in Threads \ {a} : state'[b] = state[b]]_vars

C17_Witness ==
    /\ last.thread = "A"
    /\ last.node = "planner"
    /\ pc["B"] = "tool_executor"
    /\ state["A"].messages # <<>>
    /\ state["B"].messages # <<>>
    /\ state["A"].messages # state["B"].messages

\* ------------------------------------------------------------ C18
\* the characters the spec allows in an expression: [\d.+\-*/()\s]
IsArithmeticChar(c) ==
    c \in {"0", "1", "2", "3", "4", "5", "6", "7", "8", "9",
           ".", "+", "-", "*", "/", "(", ")", " "}
Allowed(expression) ==
    /\ expression # <<>>
    /\ \A i \in DOMAIN expression : IsArithmeticChar(expression[i])

\* C18: the calculator the planner can dispatch rejects every expression
\* that holds anything but digits, decimal points, parentheses, whitespace
\* and + - * /, and never produces a value from one.
C18_RejectsNonArithmetic ==
    ( /\ calc.pc = "returned"
      /\ ~Allowed(calc.expression) )
    => calc.output.kind = "error"

\* ------------------------------------------------------- C19, C20
\* C19: the sanitizer is idempotent on texts holding one well-formed
\* SELECT ... ; statement: applied to its own output it returns that output.
C19_SanitizerIdempotent ==
    sql.pc = "recleaned" => sql.again = sql.cleaned

Contains(s, part) ==
    \E i \in 1..(Len(s) - Len(part) + 1) :
        SubSeq(s, i, i + Len(part) - 1) = part

\* the two-branch disjunction the spec describes for a column and keyword
TwoBranch(column, kw, squeezed) ==
    <<"(">> \o column \o <<" ", "LIKE", " ", "'", "%">> \o kw
    \o <<"%", "'", " ", "OR", " ", "REPLACE", "(">> \o column
    \o <<",", " ", "'", " ", "'", ",", " ", "'", "'", ")", " ", "LIKE", " ",
         "'", "%">> \o squeezed \o <<"%", "'", ")">>

\* C20: the sanitized statement holds no fence and no backtick, and an
\* allow-listed column in a LIKE '%SS 2%' filter, quoted or not, comes out
\* of the expansion as the two-branch OR on '%SS 2%' and '%SS2%'.
C20_AllowListedFilterExpanded ==
    sql.pc = "expanded"
    => /\ ~Contains(sql.cleaned, <<Backtick>>)
       /\ \A column \in { <<"address">>, <<"\"", "address", "\"">> } :
             Contains(sql.cleaned,
                      <<" ">> \o column \o <<" ", "LIKE", " ", "'", "%">>
                      \o Keyword \o <<"%", "'">>)
             => Contains(sql.fuzzy,
                         TwoBranch(column, Keyword, <<"SS", "2">>))

\* ------------------------------------------------------- C23 .. C27
IsUserOrAssistantTurn(m) == m.type \in {"human", "ai"}
OldestBatch == SubSeq(ConvBefore, 1, B)

C24_SnippetsAreAppendedSummaries ==
    ( /\ AfterNode("retrieve_memory")
      /\ LastHumanContent(last.before.messages) # ""
      /\ Len(last.indexBefore) > 1 )
    => LET snippets == state[last.thread].retrieved_context
       IN /\ Len(snippets) >= 1
          /\ Len(snippets) <= SEARCH_K
          /\ \A i \in DOMAIN snippets :
                \E k \in 2..Len(last.indexBefore) :
                    snippets[i] = last.indexBefore[k]

\* C25: the live window is bounded: right after the memory node has run,
\* the thread's state holds at most R non-system turns.
C25_LiveWindowBounded ==
    AfterNode("manage_memory")
    => Len(Conversational(state[last.thread].messages)) <= R

\* the summaries thread t's own evictions produced
OwnSummaries(t) == { cycles[t][k].summary : k \in DOMAIN cycles[t] }

\* C26: every snippet in a thread's retrieved context is a summary produced
\* from that thread's own conversation (the index's empty placeholder text
\* set aside), never one produced from another thread's.
C26_ContextStaysInThread ==
    \A t \in Threads :
        state[t].retrieved_context # NoContext
        => \A i \in DOMAIN state[t].retrieved_context :
              \/ state[t].retrieved_context[i] = InitIndex[1]
              \/ state[t].retrieved_context[i] \in OwnSummaries(t)

\* C27: the tool executor runs only right after the planner of the same
\* turn returned a turn with at least one tool-call request, that turn
\* being the most recent one; it never returns its "no tool calls" error;
\* and the branch taken after the planner is decided by the routing value
\* the planner wrote in this turn.
C27_ExecutorOnlyAfterToolCallPlan ==
    /\ \A t \in Threads :
         pc[t] = "tool_executor"
         => /\ last.thread = t /\ AfterNode("planner")
            /\ LastMessage(t) = Returned.messages[1]
            /\ LastMessage(t).type = "ai"
            /\ LastMessage(t).tool_calls # <<>>
    /\ AfterNode("planner")
       => /\ "next_action_type" \in last.ret.keys
          /\ state[last.thread].next_action_type = Returned.next_action_type
          /\ pc[last.thread] =
               IF Returned.messages[1].tool_calls # <<>>
               THEN "tool_executor" ELSE "chat_response_generator"
    /\ AfterNode("tool_executor")
       => \A i \in DOMAIN Returned.messages :
             /\ Returned.messages[i].type = "tool"
             /\ Returned.messages[i].content # NO_TOOL_CALLS

C27_Witness ==
    /\ AfterNode("planner")
    /\ last.before.next_action_type = "tool_call"
    /\ Returned.next_action_type = "final_answer"
    /\ pc[last.thread] = "chat_response_generator"
    /\ Len(last.before.messages) > 4

\* ------------------------------------------------------- C21, C22
\* the qualifying filters of the generated statements and what each is to
\* be rewritten into
Qualifying ==
    { [old |-> like_clause(Quoted("address"), Keyword),
       new |-> TwoBranch(Quoted("address"), Keyword, <<"SS", "2">>)],
      [old |-> like_clause(Quoted("services"), <<"wifi">>),
       new |-> TwoBranch(Quoted("services"), <<"wifi">>, <<"wifi">>)] }

StartsWith(s, i, part) ==
    /\ i + Len(part) - 1 <= Len(s)
    /\ SubSeq(s, i, i + Len(part) - 1) = part

\* every qualifying filter rewritten once, in one pass from left to right
RECURSIVE RewriteEach(_, _)
RewriteEach(s, i) ==
    IF i > Len(s) THEN <<>>
    ELSE IF \E q \in Qualifying : StartsWith(s, i, q.old)
    THEN LET q == CHOOSE x \in Qualifying : StartsWith(s, i, x.old)
         IN q.new \o RewriteEach(s, i + Len(q.old))
    ELSE <<s[i]>> \o RewriteEach(s, i + 1)

\* C21: fuzzy expansion rewrites every qualifying filter of the statement,
\* each exactly once and independently of the others (several in one WHERE
\* clause, several WHERE clauses, the same column and keyword twice), and
\* returns a statement with no qualifying filter unchanged.
C21_EveryFilterRewrittenOnce ==
    sql.pc = "expanded" => sql.fuzzy = RewriteEach(sql.cleaned, 1)

\* number of places where part occurs in s
Count(s, part) == Cardinality({ i \in 1..Len(s) : StartsWith(s, i, part) })

\* the filters of the generated statements on a column outside the
\* allow-list
OtherFilters ==
    { like_clause(Quoted("name"), Keyword),
      Quoted("name") \o <<" ", "=", " ", "'", "KLCC", "'">> }

HasAllowListedFilter(s) ==
    \E c \in {"address", "full_description", "services"} :
        Contains(s, Quoted(c) \o <<" ", "LIKE">>)

\* C22: fuzzy expansion leaves every filter on a column outside the
\* allow-list as it was: the filter occurs in the output as often as in the
\* input, is not put in parentheses, and no REPLACE on its column is added;
\* a statement without an allow-listed LIKE filter is returned identical.
C22_OtherFiltersUntouched ==
    sql.pc = "expanded"
    => /\ \A f \in OtherFilters :
             /\ Count(sql.fuzzy, f) = Count(sql.cleaned, f)
             /\ Count(sql.fuzzy, <<"(">> \o f) = 0
       /\ ~Contains(sql.fuzzy, <<"REPLACE", "(">> \o Quoted("name"))
       /\ ~HasAllowListedFilter(sql.cleaned) => sql.fuzzy = sql.cleaned

C22_Witness ==
    /\ sql.pc = "expanded"
    /\ sql.fuzzy # sql.cleaned
    /\ Contains(sql.cleaned, <<"AND", " ">> \o like_clause(Quoted("name"), Keyword))
    /\ Contains(sql.fuzzy, <<"AND", " ">> \o like_clause(Quoted("name"), Keyword))
    /\ Contains(sql.fuzzy, <<"REPLACE", "(">> \o Quoted("address"))

====
